---- MODULE Spec2Model ----
(***************************************************************************)
(* Model of core/meme.py: MemeManager, the adapter between the chat-bot    *)
(* host and the meme_generator library.  Strings are sequences of one-     *)
(* character strings, a template is a record of the attributes the         *)
(* manager reads, and every capability of the library or of the parameter  *)
(* collector is an input whose outcome (a value or a raised exception) is  *)
(* chosen nondeterministically.                                            *)
(***************************************************************************)
EXTENDS Integers, Sequences, FiniteSets, TLC

\* ------------------------------------------------------------------ bounds
MaxTextLen == 3
MaxCatalog == 2

\* ----------------------------------------------------------------- strings
Chars == {"a", "b", " "}

IsSpace(c) == c = " "

Strings(n) == UNION {[1..k -> Chars] : k \in 0..n}

Texts == Strings(MaxTextLen)

\* The arguments the life-cycle specification calls the lookups with: the
\* empty text, a whitespace-only text, a key, an alias.
Probes == {<<>>, <<" ">>, <<"a">>, <<"a", "b">>}

\* Python's `k in text` on two str values.
Contains(text, k) ==
    \E i \in 0..(Len(text) - Len(k)) : \A j \in 1..Len(k) : text[i + j] = k[j]

\* Python's `k in keywords` on a list.
InList(k, keywords) == \E i \in 1..Len(keywords) : keywords[i] = k

\* str.split() without arguments: scan left to right, a run of whitespace ends
\* the current word, empty words are never produced.  `cur` is the word being
\* read, `out` the words completed so far.
RECURSIVE SplitFrom(_, _, _, _)
SplitFrom(text, i, cur, out) ==
    IF i > Len(text)
    THEN IF cur = <<>> THEN out ELSE Append(out, cur)
    ELSE IF IsSpace(text[i])
         THEN SplitFrom(text, i + 1, <<>>, IF cur = <<>> THEN out ELSE Append(out, cur))
         ELSE SplitFrom(text, i + 1, Append(cur, text[i]), out)

split(text) == SplitFrom(text, 1, <<>>, <<>>)

\* --------------------------------------------------------------- templates
\* A Meme as the manager sees it: its key, its keyword list, and how reading
\* the keyword list behaves ("ok"; "missing": the attribute does not exist,
\* AttributeError; "notiterable": it is not iterable, TypeError).
T(key, keywords, attr) == [key |-> key, keywords |-> keywords, attr |-> attr]

TplA == T(<<"a">>, <<<<"b">>, <<"a", "b">>>>, "ok")

TplB == T(<<"b">>, <<<<"a", "b">>, <<"a">>, <<"a", "b">>>>, "ok")

TplNoKw == T(<<"a", "b">>, <<>>, "ok")

TplDup == T(<<"a">>, <<<<"b">>, <<"b">>>>, "ok")

TplEmptyKw == T(<<"b">>, <<<<>>, <<"a", " ">>>>, "ok")

TplMissing == T(<<"a">>, <<>>, "missing")

TplNotIterable == T(<<"b">>, <<>>, "notiterable")

GoodTemplates == {TplA, TplB, TplNoKw, TplDup, TplEmptyKw}

BadTemplates == {TplMissing, TplNotIterable}

Templates == GoodTemplates \cup BadTemplates

Catalogs == UNION {[1..n -> Templates] : n \in 0..MaxCatalog}

\* ------------------------------------------------------------------ values
\* The result of a call: kind "None", "True", "False", "str" (val is the
\* string), "meme" (idx is the catalog index), "info", "bytes", or "raise"
\* (exc names the exception that reaches the caller).
Res(kind, val, idx, exc) == [kind |-> kind, val |-> val, idx |-> idx, exc |-> exc]

NoneRes == Res("None", <<>>, 0, "")

Raise(exc) == Res("raise", <<>>, 0, exc)

\* Exceptions (subclasses of Exception) an external capability may raise.
Excs == {"AttributeError", "RuntimeError"}

\* The outcome of one external call: "" when it returns, else the exception.
Outcomes == {""} \cup Excs

\* What get_memes() may do: return a catalog or raise.
Fetch(exc, memes) == [exc |-> exc, memes |-> memes]

FetchAll == {Fetch("", c) : c \in Catalogs} \cup {Fetch(e, <<>>) : e \in Excs}

FetchCatalogs ==
    { <<>>, <<TplA, TplB>>, <<TplNoKw>>, <<TplA, TplMissing>>, <<TplNotIterable>> }

FetchSome == {Fetch("", c) : c \in FetchCatalogs} \cup {Fetch(e, <<>>) : e \in Excs}

\* meme_generator versions the import may find.
Versions == {<<0, 1, 9>>, <<0, 2, 0>>, <<0, 2, 1>>}

\* Python's tuple comparison a < b on two tuples of three ints.
TupleLess(a, b) ==
    \/ a[1] < b[1]
    \/ a[1] = b[1] /\ a[2] < b[2]
    \/ a[1] = b[1] /\ a[2] = b[2] /\ a[3] < b[3]

Tasks == {"t1", "t2"}

\* ------------------------------------------------------------------- state
VARIABLES
    MEME_GENERATOR_AVAILABLE,  \* the module-level import succeeded
    is_py_version,             \* class attribute: version < (0, 2, 0)
    conf,                      \* conf["is_check_resources"]
    ctor,                      \* "none", "ok" or "raised": __init__
    memes,                     \* self.memes
    meme_keywords,             \* self.meme_keywords
    _memes_loaded,             \* self._memes_loaded
    chk,                       \* per task: a check_resources() call
    gen,                       \* a generate_meme() call
    last                       \* the last query call and what it returned

vars == <<MEME_GENERATOR_AVAILABLE, is_py_version, conf, ctor, memes,
          meme_keywords, _memes_loaded, chk, gen, last>>

env == <<MEME_GENERATOR_AVAILABLE, is_py_version, conf, ctor>>

catalog == <<memes, meme_keywords, _memes_loaded>>

\* A check_resources() call: where it is; what the library's resource check
\* did ("" not invoked, "invoked", "returned", "raised"); how often the call
\* ran _load_memes; what get_memes() did there ("" not called, "raised",
\* "empty", "flatten_raised": a catalog whose keywords could not be read,
\* "ok"); and the exception the call raised to its caller ("" for none).
ChkCall(pc, checked, loads, fetched, exc) ==
    [pc |-> pc, checked |-> checked, loads |-> loads, fetched |-> fetched, exc |-> exc]

ChkIdle == ChkCall("idle", "", 0, "", "")

\* A generate_meme() call: where it is, the template resolved (0 for none),
\* the external calls made so far in order, each with its outcome ("" while
\* awaited, "ok", or the exception it raised), and the result once done.
GenCall(pc, meme, trace, res) == [pc |-> pc, meme |-> meme, trace |-> trace, res |-> res]

GenIdle == GenCall("idle", 0, <<>>, NoneRes)

Ext(call, out) == [call |-> call, out |-> out]

\* the trace with its last call's outcome filled in
Returned(trace, o) ==
    [trace EXCEPT ![Len(trace)] = Ext(trace[Len(trace)].call, IF o = "" THEN "ok" ELSE o)]

Call(op, arg, fuzzy, res, ext) ==
    [op |-> op, arg |-> arg, fuzzy |-> fuzzy, res |-> res, ext |-> ext]

NoCall == Call("", <<>>, FALSE, NoneRes, <<>>)

\* reading m.keywords (legacy) or m.info.keywords (current) of a template
KeywordsExc(m) ==
    IF m.attr = "missing" THEN "AttributeError"
    ELSE IF m.attr = "notiterable" THEN "TypeError"
    ELSE ""

\* ---------------------------------------------------------------- loading
\* [k for m in self.memes for k in m.keywords]: the list built, or the
\* exception raised on the way.
RECURSIVE Flatten(_, _, _)
Flatten(ms, i, out) ==
    IF i > Len(ms) THEN [exc |-> "", kws |-> out]
    ELSE IF KeywordsExc(ms[i]) # "" THEN [exc |-> KeywordsExc(ms[i]), kws |-> <<>>]
    ELSE Flatten(ms, i + 1, out \o ms[i].keywords)

Loaded(ms, kws, ld, fetched) ==
    [memes |-> ms, meme_keywords |-> kws, loaded |-> ld, fetched |-> fetched]

\* _load_memes without the early return on self._memes_loaded
_load_memes_reload(f) ==
    IF ~MEME_GENERATOR_AVAILABLE
    THEN Loaded(memes, meme_keywords, _memes_loaded, "")
    ELSE IF f.exc # "" THEN Loaded(<<>>, <<>>, _memes_loaded, "raised")
    ELSE IF f.memes = <<>> THEN Loaded(f.memes, meme_keywords, _memes_loaded, "empty")
    ELSE LET fl == Flatten(f.memes, 1, <<>>)
         IN  IF fl.exc # "" THEN Loaded(<<>>, <<>>, _memes_loaded, "flatten_raised")
             ELSE Loaded(f.memes, fl.kws, TRUE, "ok")

\* _load_memes whose except clauses only log
_load_memes_noreset(f) ==
    IF _memes_loaded THEN Loaded(memes, meme_keywords, _memes_loaded, "")
    ELSE IF ~MEME_GENERATOR_AVAILABLE
    THEN Loaded(memes, meme_keywords, _memes_loaded, "")
    ELSE IF f.exc # "" THEN Loaded(memes, meme_keywords, _memes_loaded, "raised")
    ELSE IF f.memes = <<>> THEN Loaded(f.memes, meme_keywords, _memes_loaded, "empty")
    ELSE LET fl == Flatten(f.memes, 1, <<>>)
         IN  IF fl.exc # "" THEN Loaded(f.memes, meme_keywords, _memes_loaded, "flatten_raised")
             ELSE Loaded(f.memes, fl.kws, TRUE, "ok")

\* _load_memes() when get_memes() behaves as f: the fields afterwards and
\* what get_memes() did.  Both except clauses reset the same way.
_load_memes(f) ==
    IF _memes_loaded THEN Loaded(memes, meme_keywords, _memes_loaded, "")
    ELSE IF ~MEME_GENERATOR_AVAILABLE
    THEN Loaded(memes, meme_keywords, _memes_loaded, "")
    ELSE IF f.exc # "" THEN Loaded(<<>>, <<>>, _memes_loaded, "raised")
    ELSE IF f.memes = <<>> THEN Loaded(f.memes, meme_keywords, _memes_loaded, "empty")
    ELSE LET fl == Flatten(f.memes, 1, <<>>)
         IN  IF fl.exc # "" THEN Loaded(<<>>, <<>>, _memes_loaded, "flatten_raised")
             ELSE Loaded(f.memes, fl.kws, TRUE, "ok")

SetCatalog(r) ==
    /\ memes' = r.memes
    /\ meme_keywords' = r.meme_keywords
    /\ _memes_loaded' = r.loaded

\* ---------------------------------------------------------------- queries
RECURSIVE FindFrom(_, _)
FindFrom(keyword, i) ==
    IF i > Len(memes) THEN NoneRes
    ELSE IF KeywordsExc(memes[i]) # "" THEN Raise(KeywordsExc(memes[i]))
    ELSE IF keyword = memes[i].key \/ InList(keyword, memes[i].keywords)
         THEN Res("meme", <<>>, i, "")
         ELSE FindFrom(keyword, i + 1)

\* find_meme preferring a template whose key is the keyword to an earlier
\* one that has it as an alias
find_meme_keyfirst(keyword) ==
    IF ~_memes_loaded THEN NoneRes
    ELSE LET byKey == {i \in 1..Len(memes) : memes[i].key = keyword}
             byAlias == {i \in 1..Len(memes) : InList(keyword, memes[i].keywords)}
             least(S) == CHOOSE i \in S : \A j \in S : i <= j
         IN  IF byKey # {} THEN Res("meme", <<>>, least(byKey), "")
             ELSE IF byAlias # {} THEN Res("meme", <<>>, least(byAlias), "")
             ELSE NoneRes

\* find_meme comparing the keyword with the keys only
find_meme_keyonly(keyword) ==
    IF ~_memes_loaded THEN NoneRes
    ELSE LET byKey == {i \in 1..Len(memes) : memes[i].key = keyword}
         IN  IF byKey # {} THEN Res("meme", <<>>, CHOOSE i \in byKey : \A j \in byKey : i <= j, "")
             ELSE NoneRes

find_meme(keyword) ==
    IF ~_memes_loaded THEN NoneRes ELSE FindFrom(keyword, 1)

is_meme_keyword(meme_name) ==
    IF ~_memes_loaded THEN Res("False", <<>>, 0, "")
    ELSE IF InList(meme_name, meme_keywords) THEN Res("True", <<>>, 0, "")
    ELSE Res("False", <<>>, 0, "")

\* exact mode comparing the keyword with the whole text, not its first word
RECURSIVE MatchFrom_wholetext(_, _, _)
MatchFrom_wholetext(text, fuzzy_match, i) ==
    IF i > Len(meme_keywords) THEN NoneRes
    ELSE IF fuzzy_match
    THEN IF Contains(text, meme_keywords[i])
         THEN Res("str", meme_keywords[i], 0, "")
         ELSE MatchFrom_wholetext(text, fuzzy_match, i + 1)
    ELSE IF meme_keywords[i] = text
         THEN Res("str", meme_keywords[i], 0, "")
         ELSE MatchFrom_wholetext(text, fuzzy_match, i + 1)

\* next((k for k in self.meme_keywords if <cond>), None): the condition is
\* evaluated once per keyword visited, so text.split()[0] raises IndexError
\* at the first keyword when the text holds no word.
RECURSIVE MatchFrom(_, _, _)
MatchFrom(text, fuzzy_match, i) ==
    IF i > Len(meme_keywords) THEN NoneRes
    ELSE IF fuzzy_match
    THEN IF Contains(text, meme_keywords[i])
         THEN Res("str", meme_keywords[i], 0, "")
         ELSE MatchFrom(text, fuzzy_match, i + 1)
    ELSE LET words == split(text)
         IN  IF words = <<>> THEN Raise("IndexError")
             ELSE IF meme_keywords[i] = words[1]
             THEN Res("str", meme_keywords[i], 0, "")
             ELSE MatchFrom(text, fuzzy_match, i + 1)

match_meme_keyword(text, fuzzy_match) ==
    IF ~_memes_loaded THEN NoneRes ELSE MatchFrom(text, fuzzy_match, 1)

Ret(res, ext) == [res |-> res, ext |-> ext]

\* render_meme_list_image without the check of self._memes_loaded
render_meme_list_image_unguarded(o) ==
    IF o = "" THEN Ret(Res("bytes", <<>>, 0, ""), <<"render_meme_list">>)
    ELSE Ret(Raise(o), <<"render_meme_list">>)

\* o is the outcome of the library's render_meme_list.
render_meme_list_image(o) ==
    IF ~_memes_loaded THEN Ret(NoneRes, <<>>)
    ELSE IF o = "" THEN Ret(Res("bytes", <<>>, 0, ""), <<"render_meme_list">>)
    ELSE Ret(Raise(o), <<"render_meme_list">>)

\* o is the outcome of meme.generate_preview(); the description text is
\* not modelled, the result names the template described.
get_meme_info(keyword, o) ==
    LET meme == find_meme(keyword)
    IN  IF meme.kind = "raise" THEN Ret(meme, <<>>)
        ELSE IF meme.kind = "None" THEN Ret(NoneRes, <<>>)
        ELSE IF o = "" THEN Ret(Res("info", <<>>, meme.idx, ""), <<"generate_preview">>)
        ELSE Ret(Raise(o), <<"generate_preview">>)

\* ------------------------------------------------------------ construction
Init ==
    /\ MEME_GENERATOR_AVAILABLE \in BOOLEAN
    /\ is_py_version \in
          {TupleLess(v, <<0, 2, 0>>) :
               v \in IF MEME_GENERATOR_AVAILABLE THEN Versions ELSE {<<999, 0, 0>>}}
    /\ conf \in BOOLEAN
    /\ ctor = "none"
    /\ memes = <<>>
    /\ meme_keywords = <<>>
    /\ _memes_loaded = FALSE
    /\ chk = [t \in Tasks |-> ChkIdle]
    /\ gen = GenIdle
    /\ last = NoCall

\* __init__: o is the outcome of importing the binding's functions.
Construct(o) ==
    /\ ctor = "none"
    /\ memes' = <<>>
    /\ meme_keywords' = <<>>
    /\ _memes_loaded' = FALSE
    /\ ctor' = IF ~MEME_GENERATOR_AVAILABLE THEN "ok"
               ELSE IF o = "" THEN "ok" ELSE "raised"
    /\ UNCHANGED <<MEME_GENERATOR_AVAILABLE, is_py_version, conf, chk, gen, last>>

\* --------------------------------------------------------- check_resources
\* check_resources without the check of MEME_GENERATOR_AVAILABLE
CheckResourcesStart_nodisabled(t, f) ==
    /\ ctor = "ok"
    /\ chk[t].pc \in {"idle", "done"}
    /\ IF ~conf
       THEN LET r == _load_memes(f)
            IN  /\ SetCatalog(r)
                /\ chk' = [chk EXCEPT ![t] = ChkCall("done", "", 1, r.fetched, "")]
       ELSE /\ chk' = [chk EXCEPT ![t] = ChkCall("await", "invoked", 0, "", "")]
            /\ UNCHANGED catalog
    /\ UNCHANGED <<env, gen, last>>

\* check_resources() up to its await (or to its end when it does not await);
\* f is what get_memes() does if _load_memes calls it.
CheckResourcesStart(t, f) ==
    /\ ctor = "ok"
    /\ chk[t].pc \in {"idle", "done"}
    /\ IF ~MEME_GENERATOR_AVAILABLE
       THEN /\ chk' = [chk EXCEPT ![t] = ChkCall("done", "", 0, "", "")]
            /\ UNCHANGED catalog
       ELSE IF ~conf
       THEN LET r == _load_memes(f)
            IN  /\ SetCatalog(r)
                /\ chk' = [chk EXCEPT ![t] = ChkCall("done", "", 1, r.fetched, "")]
       ELSE /\ chk' = [chk EXCEPT ![t] = ChkCall("await", "invoked", 0, "", "")]
            /\ UNCHANGED catalog
    /\ UNCHANGED <<env, gen, last>>

\* check_resources without the try/except around the resource check
CheckResourcesFinish_propagate(t, o, f) ==
    /\ chk[t].pc = "await"
    /\ IF o # ""
       THEN /\ chk' = [chk EXCEPT ![t] = ChkCall("done", "raised", 0, "", o)]
            /\ UNCHANGED catalog
       ELSE LET r == _load_memes(f)
            IN  /\ SetCatalog(r)
                /\ chk' = [chk EXCEPT ![t] = ChkCall("done", "returned", 1, r.fetched, "")]
    /\ UNCHANGED <<env, gen, last>>

\* check_resources() from the await on: o is the outcome of the resource
\* check, which `except Exception` swallows.
CheckResourcesFinish(t, o, f) ==
    /\ chk[t].pc = "await"
    /\ LET r == _load_memes(f)
       IN  /\ SetCatalog(r)
           /\ chk' = [chk EXCEPT ![t] =
                       ChkCall("done", IF o = "" THEN "returned" ELSE "raised",
                               1, r.fetched, "")]
    /\ UNCHANGED <<env, gen, last>>

\* ------------------------------------------------------------ query calls
FindMeme(keyword) ==
    /\ ctor = "ok"
    /\ last' = Call("find_meme", keyword, FALSE, find_meme(keyword), <<>>)
    /\ UNCHANGED <<env, catalog, chk, gen>>

IsMemeKeyword(meme_name) ==
    /\ ctor = "ok"
    /\ last' = Call("is_meme_keyword", meme_name, FALSE, is_meme_keyword(meme_name), <<>>)
    /\ UNCHANGED <<env, catalog, chk, gen>>

MatchMemeKeyword(text, fuzzy_match) ==
    /\ ctor = "ok"
    /\ last' = Call("match_meme_keyword", text, fuzzy_match,
                    match_meme_keyword(text, fuzzy_match), <<>>)
    /\ UNCHANGED <<env, catalog, chk, gen>>

RenderMemeListImage(o) ==
    /\ ctor = "ok"
    /\ LET r == render_meme_list_image(o)
       IN  last' = Call("render_meme_list_image", <<>>, FALSE, r.res, r.ext)
    /\ UNCHANGED <<env, catalog, chk, gen>>

GetMemeInfo(keyword, o) ==
    /\ ctor = "ok"
    /\ LET r == get_meme_info(keyword, o)
       IN  last' = Call("get_meme_info", keyword, FALSE, r.res, r.ext)
    /\ UNCHANGED <<env, catalog, chk, gen>>

\* ----------------------------------------------------------- generate_meme
\* generate_meme() up to `await self.collect.collect_params(...)`.
GenerateStart(keyword) ==
    /\ ctor = "ok"
    /\ gen.pc \in {"idle", "done"}
    /\ LET meme == find_meme(keyword)
       IN  gen' = IF meme.kind = "raise" THEN GenCall("done", 0, <<>>, meme)
                  ELSE IF meme.kind = "None" THEN GenCall("done", 0, <<>>, NoneRes)
                  ELSE GenCall("collecting", meme.idx, <<Ext("collect_params", "")>>, NoneRes)
    /\ UNCHANGED <<env, catalog, chk, last>>

\* The generator the binding calls: run_sync(meme) or meme.generate.
Generator == IF is_py_version THEN "run_sync" ELSE "generate"

\* generate_meme with the collector wrapped in try/except returning None
GenerateCollected_swallow(o) ==
    /\ gen.pc = "collecting"
    /\ gen' = IF o # "" THEN GenCall("done", gen.meme, Returned(gen.trace, o), NoneRes)
              ELSE GenCall("generating", gen.meme,
                           Append(Returned(gen.trace, o), Ext(Generator, "")), NoneRes)
    /\ UNCHANGED <<env, catalog, chk, last>>

\* From the collector's return (outcome o) to the await on the generator.
GenerateCollected(o) ==
    /\ gen.pc = "collecting"
    /\ gen' = IF o # "" THEN GenCall("done", gen.meme, Returned(gen.trace, o), Raise(o))
              ELSE GenCall("generating", gen.meme,
                           Append(Returned(gen.trace, o), Ext(Generator, "")), NoneRes)
    /\ UNCHANGED <<env, catalog, chk, last>>

\* From the generator's return (outcome o) to the end of generate_meme().
GenerateFinished(o) ==
    /\ gen.pc = "generating"
    /\ gen' = IF o # "" THEN GenCall("done", gen.meme, Returned(gen.trace, o), Raise(o))
              ELSE GenCall("done", gen.meme, Returned(gen.trace, o),
                           Res("bytes", <<>>, gen.meme, ""))
    /\ UNCHANGED <<env, catalog, chk, last>>

\* ---------------------------------------------------------- specifications
Next ==
    \/ \E o \in {"", "ImportError"} : Construct(o)
    \/ \E t \in Tasks, f \in FetchSome : CheckResourcesStart(t, f)
    \/ \E t \in Tasks, o \in Outcomes, f \in FetchSome : CheckResourcesFinish(t, o, f)
    \/ \E keyword \in Probes : FindMeme(keyword)
    \/ \E meme_name \in Probes : IsMemeKeyword(meme_name)
    \/ \E text \in Probes, fuzzy_match \in BOOLEAN : MatchMemeKeyword(text, fuzzy_match)
    \/ \E o \in Outcomes : RenderMemeListImage(o)
    \/ \E keyword \in Probes, o \in Outcomes : GetMemeInfo(keyword, o)
    \/ \E keyword \in Probes : GenerateStart(keyword)
    \/ \E o \in Outcomes : GenerateCollected(o)
    \/ \E o \in Outcomes : GenerateFinished(o)

Spec == Init /\ [][Next]_vars

\* The lookups on every catalog and every text: one caller that loads,
\* without a resource check, until a catalog is there, and makes one lookup.
InitQuery == Init /\ MEME_GENERATOR_AVAILABLE /\ ~is_py_version /\ ~conf

NextQuery ==
    \/ Construct("")
    \/ ~_memes_loaded /\ \E f \in FetchAll : CheckResourcesStart("t1", f)
    \/ last = NoCall /\ \E keyword \in Texts : FindMeme(keyword)
    \/ last = NoCall /\ \E meme_name \in Texts : IsMemeKeyword(meme_name)
    \/ last = NoCall /\ \E text \in Texts, fuzzy_match \in BOOLEAN :
                             MatchMemeKeyword(text, fuzzy_match)

SpecQuery == InitQuery /\ [][NextQuery]_vars

\* ------------------------------------------------------------------ claims
Unloaded(c) ==
    /\ c.ext = <<>>
    /\ c.res = IF c.op = "is_meme_keyword" THEN Res("False", <<>>, 0, "") ELSE NoneRes

\* C1: a lookup made while _memes_loaded is false returns None (False for
\* is_meme_keyword), raises nothing and calls nothing of the library,
\* whatever its argument.
C1_UnloadedLookupsReturnNone ==
    [][(~_memes_loaded /\ last' # last) => Unloaded(last')]_vars

\* exact-mode matching of a whitespace-only text, after a load that failed
C1_Witness ==
    /\ ~_memes_loaded
    /\ MEME_GENERATOR_AVAILABLE
    /\ \E t \in Tasks : chk[t].pc = "done" /\ chk[t].fetched = "flatten_raised"
    /\ last.op = "match_meme_keyword" /\ ~last.fuzzy /\ last.arg = <<" ">>
    /\ last.res = NoneRes

\* C2: once _memes_loaded is true it stays true, memes and meme_keywords do
\* not change, and no check_resources call fetches the catalog again.
C2_LoadedIsStable ==
    [][_memes_loaded =>
          /\ _memes_loaded'
          /\ memes' = memes
          /\ meme_keywords' = meme_keywords
          /\ \A t \in Tasks : chk'[t] # chk[t] => chk'[t].fetched = ""]_vars

\* two check_resources calls past the resource check; one loaded, the other
\* ran _load_memes without fetching
C2_Witness ==
    /\ _memes_loaded
    /\ chk["t1"].pc = "done" /\ chk["t1"].checked # "" /\ chk["t1"].fetched = "ok"
    /\ chk["t2"].pc = "done" /\ chk["t2"].checked # "" /\ chk["t2"].loads = 1
    /\ chk["t2"].fetched = ""

\* a check_resources call ran _load_memes in this step
LoadStep(t) == chk'[t] # chk[t] /\ chk'[t].pc = "done" /\ chk'[t].loads = 1

FailedFetch == {"raised", "empty", "flatten_raised"}

AfterFailure == \E u \in Tasks : chk[u].pc = "done" /\ chk[u].fetched \in FailedFetch

\* C3 (as amended): a load attempt that fetches an empty catalog or raises
\* ends unloaded with memes and meme_keywords empty; the next attempt fetches
\* again and sets _memes_loaded when the catalog is non-empty and reading
\* its keywords does not raise.
C3_FailedLoadResetsAndRetries ==
    [][\A t \in Tasks :
          (LoadStep(t) /\ ~_memes_loaded /\ MEME_GENERATOR_AVAILABLE) =>
              /\ chk'[t].fetched # ""
              /\ chk'[t].fetched \in FailedFetch =>
                     ~_memes_loaded' /\ memes' = <<>> /\ meme_keywords' = <<>>
              /\ chk'[t].fetched = "ok" => _memes_loaded' /\ memes' # <<>>]_vars

\* a load that succeeded after another one failed on the keyword lists
C3_Witness ==
    /\ _memes_loaded
    /\ chk["t1"].pc = "done" /\ chk["t1"].fetched = "flatten_raised"
    /\ chk["t2"].pc = "done" /\ chk["t2"].fetched = "ok"

\* C3 as stated: after a failed attempt, the next attempt sets _memes_loaded
\* whenever get_memes() returns a non-empty catalog.
C3_Original ==
    [][\A t \in Tasks :
          (LoadStep(t) /\ ~_memes_loaded /\ MEME_GENERATOR_AVAILABLE) =>
              /\ chk'[t].fetched \in {"raised", "empty"} =>
                     ~_memes_loaded' /\ memes' = <<>> /\ meme_keywords' = <<>>
              /\ (AfterFailure /\ chk'[t].fetched \in {"ok", "flatten_raised"}) =>
                     _memes_loaded']_vars

\* C4: with the library available, a finished check_resources call has run
\* _load_memes exactly once and raised nothing; it invoked the resource
\* check exactly when the configuration asks for it.
C4_CheckResourcesAlwaysLoads ==
    \A t \in Tasks :
        (MEME_GENERATOR_AVAILABLE /\ chk[t].pc = "done") =>
            /\ chk[t].loads = 1
            /\ chk[t].exc = ""
            /\ (chk[t].checked = "") <=> ~conf

\* the resource check raised, and the call went on to fetch the catalog
C4_Witness ==
    \E t \in Tasks :
        chk[t].pc = "done" /\ chk[t].checked = "raised" /\ chk[t].fetched = "ok"

\* C5: without the library, construction does not raise and no call loads
\* anything, invokes anything external, raises or returns a value.
C5_DisabledIsInert ==
    ~MEME_GENERATOR_AVAILABLE =>
        /\ ctor # "raised"
        /\ ~_memes_loaded /\ memes = <<>> /\ meme_keywords = <<>>
        /\ \A t \in Tasks :
               /\ chk[t].pc # "await"
               /\ chk[t].checked = "" /\ chk[t].fetched = "" /\ chk[t].exc = ""
        /\ gen.pc \in {"idle", "done"} /\ gen.trace = <<>> /\ gen.res = NoneRes
        /\ last.ext = <<>>
        /\ last.res.kind \in {"None", "False"}

\* disabled, and check_resources, generate_meme and get_meme_info have run
C5_Witness ==
    /\ ~MEME_GENERATOR_AVAILABLE
    /\ conf
    /\ chk["t1"].pc = "done"
    /\ gen.pc = "done"
    /\ last.op = "get_meme_info"

IsExc(out) == out \notin {"", "ok"}

\* C9: generate_meme returns None with no external call when no template
\* resolves; otherwise the collector is called first, the generator only
\* after the collector returned, and an exception of either is the call's
\* result.
C9_GeneratePropagates ==
    /\ gen.meme = 0 => gen.trace = <<>> /\ gen.pc \in {"idle", "done"}
    /\ (gen.meme = 0 /\ gen.pc = "done") => gen.res = NoneRes
    /\ gen.meme # 0 =>
           /\ Len(gen.trace) \in {1, 2}
           /\ gen.trace[1].call = "collect_params"
           /\ Len(gen.trace) = 2 =>
                  gen.trace[1].out = "ok" /\ gen.trace[2].call = Generator
           /\ gen.pc = "done" =>
                  LET l == gen.trace[Len(gen.trace)]
                  IN  IF IsExc(l.out) THEN gen.res = Raise(l.out)
                      ELSE Len(gen.trace) = 2 /\ l.out = "ok" /\ gen.res.kind = "bytes"

\* the collector raised: the generator was not called
C9_Witness ==
    /\ gen.pc = "done"
    /\ gen.meme # 0
    /\ Len(gen.trace) = 1
    /\ gen.res = Raise("RuntimeError")

\* ---------------------------------------------------- claims on the lookups
HasWord(text) == \E i \in 1..Len(text) : ~IsSpace(text[i])

\* the first maximal run of non-whitespace characters of a text that has one
FirstWord(text) ==
    LET s == CHOOSE i \in 1..Len(text) :
                 ~IsSpace(text[i]) /\ \A j \in 1..(i - 1) : IsSpace(text[j])
        e == CHOOSE j \in s..Len(text) :
                 /\ \A k \in s..j : ~IsSpace(text[k])
                 /\ j = Len(text) \/ IsSpace(text[j + 1])
    IN  SubSeq(text, s, e)

\* the keyword occurrences of the catalog: <<template index, alias index>>
Positions ==
    UNION {{<<m, j>> : j \in 1..Len(memes[m].keywords)} : m \in 1..Len(memes)}

KeywordAt(p) == memes[p[1]].keywords[p[2]]

\* catalog order, then the order of the template's keyword list
Before(p, q) == p[1] < q[1] \/ (p[1] = q[1] /\ p[2] < q[2])

Matches(text, fuzzy, k) ==
    IF fuzzy THEN Contains(text, k) ELSE HasWord(text) /\ k = FirstWord(text)

Hits(text, fuzzy) == {p \in Positions : Matches(text, fuzzy, KeywordAt(p))}

ProperPartOfFirstWord(k, text) ==
    HasWord(text) /\ k # FirstWord(text) /\ Contains(FirstWord(text), k)

MatchCall(c) == _memes_loaded /\ c # last /\ c.op = "match_meme_keyword"

\* C6: with a loaded catalog, match_meme_keyword returns None, and does not
\* raise, whenever no keyword matches the text, in both modes.
C6_NoMatchReturnsNone ==
    [][(MatchCall(last') /\ Hits(last'.arg, last'.fuzzy) = {}) =>
          last'.res = NoneRes]_vars

\* C7: with a loaded catalog, match_meme_keyword returns the first keyword,
\* in catalog order and then keyword-list order, that occurs in the text
\* (fuzzy) or equals its first word (exact); a keyword that is a proper part
\* of the first word makes the fuzzy call match and is not what the exact
\* call returns.
C7_FirstKeywordInFlatteningOrder ==
    [][(MatchCall(last') /\ (last'.fuzzy \/ HasWord(last'.arg))) =>
          LET c == last'
              H == Hits(c.arg, c.fuzzy)
          IN  /\ IF H = {} THEN c.res = NoneRes
                 ELSE \E p \in H :
                          /\ \A q \in H : q = p \/ Before(p, q)
                          /\ c.res = Res("str", KeywordAt(p), 0, "")
              /\ \A p \in Positions :
                     ProperPartOfFirstWord(KeywordAt(p), c.arg) =>
                         IF c.fuzzy THEN c.res.kind = "str"
                         ELSE c.res # Res("str", KeywordAt(p), 0, "")]_vars

\* an exact call that found nothing although a keyword is part of the first
\* of the text's two words
C7_Witness ==
    /\ _memes_loaded
    /\ last.op = "match_meme_keyword" /\ ~last.fuzzy
    /\ last.arg = <<"a", "a", " ">>
    /\ InList(<<"a">>, meme_keywords)
    /\ last.res = NoneRes

\* C8: with a loaded catalog, find_meme returns the template of least
\* catalog index whose key is the keyword or whose keyword list holds it,
\* and None when there is none.
C8_FindMemeFirstInCatalogOrder ==
    [][(_memes_loaded /\ last' # last /\ last'.op = "find_meme") =>
          LET c == last'
              M == {i \in 1..Len(memes) :
                        memes[i].key = c.arg \/ InList(c.arg, memes[i].keywords)}
          IN  IF M = {} THEN c.res = NoneRes
              ELSE /\ c.res.kind = "meme"
                   /\ c.res.idx \in M
                   /\ \A j \in M : c.res.idx <= j]_vars

\* the first template has the keyword as an alias, the second as its key
C8_Witness ==
    /\ _memes_loaded
    /\ last.op = "find_meme"
    /\ Len(memes) >= 2
    /\ memes[1].key # last.arg /\ InList(last.arg, memes[1].keywords)
    /\ memes[2].key = last.arg
    /\ last.res = Res("meme", <<>>, 1, "")

\* C10: whatever is_meme_keyword accepts, and whatever match_meme_keyword
\* returns in either mode, find_meme resolves to a template.
C10_KeywordsResolve ==
    /\ (last.op = "is_meme_keyword" /\ last.res.kind = "True") =>
           find_meme(last.arg).kind = "meme"
    /\ (last.op = "match_meme_keyword" /\ last.res.kind = "str") =>
           find_meme(last.res.val).kind = "meme"

\* a fuzzy match returned an alias that only the second template has
C10_Witness ==
    /\ _memes_loaded
    /\ last.op = "match_meme_keyword" /\ last.fuzzy
    /\ last.res.kind = "str"
    /\ find_meme(last.res.val) = Res("meme", <<>>, 2, "")

====
